---- MODULE Spec2Model ----
(***************************************************************************)
(* Document structure inference (kshitijhackathon/Model).                  *)
(*                                                                         *)
(* The model follows DocumentStructureInference.process_pdf (infer.py) and *)
(* PDFFeatureExtractor (feature_extraction.py): text spans of a PDF are    *)
(* turned into a feature table, the classifier annotates it, and the title *)
(* and the outline are resolved from the annotated table.                  *)
(*                                                                         *)
(* Numbers.  Font sizes, coordinates and page heights are integers.        *)
(* Probabilities are counted in tenths (6 is 0.6, 10 is 1.0).  A quotient  *)
(* of two columns is kept as an exact fraction [num, den].  mean() and     *)
(* std() of pandas are kept as exact fractions too (std by its square), so *)
(* that "font_size >= mean + k*std" is decided exactly; std() of a single  *)
(* row is NaN, as in pandas (ddof = 1), and a comparison with NaN is false.*)
(* A DataFrame is a sequence of rows; a row carries its pandas index label *)
(* in idx (0-based, as pd.DataFrame(list) numbers the rows).               *)
(***************************************************************************)
EXTENDS Integers, Sequences, FiniteSets, TLC

VARIABLES
    pc,             \* position of process_pdf
    pdf,            \* the document at pdf_path: the spans its pages hold
    spans,          \* extract_text_spans' result
    features_df,    \* the feature table (annotated after predict)
    title,          \* _extract_title's result
    headings,       \* _extract_outline's local table, after sort_values
    used_fallback,  \* whether _extract_outline called the heuristic
    heuristic_df,   \* what _heuristic_heading_detection returned to it
    outline,        \* _extract_outline's result
    result,         \* process_pdf's return value
    predict_calls,  \* calls of model.predict / model.predict_proba so far
    \* process_batch (infer.py)
    batch_pc,       \* position of process_batch
    pdf_files,      \* list(pdf_folder_path.glob("*.pdf"))
    batch_done,     \* files the loop of process_batch has gone through
    results,        \* process_batch's dict: file name -> result or error record
    output_folder,  \* names of the files whose JSON output was written
    \* the web application (routes.py)
    inference_engine, \* the global: 0 is None, n is the engine of the n-th load
    model_exists,   \* os.path.exists(model_path)
    load_count,     \* DocumentStructureInference objects built so far
    train_count,    \* calls of train_document_classifier that wrote a model
    upload_folder,  \* the saved uploads that are still in UPLOAD_FOLDER
    req             \* the requests in progress, one per thread

pdf_vars == <<pc, pdf, spans, features_df, title, headings, used_fallback,
              heuristic_df, outline, result, predict_calls>>

batch_vars == <<batch_pc, pdf_files, batch_done, results, output_folder>>

web_vars == <<inference_engine, model_exists, load_count, train_count, upload_folder, req>>

serving_vars == <<batch_vars, web_vars>>

vars == <<pdf_vars, serving_vars>>

----------------------------------------------------------------------------
(* Bounds of the model.                                                    *)

MaxSpans == 2        \* spans of a document in the whole pipeline
MaxFeatureSpans == 2 \* spans of a document when checking calculate_features
MaxOutlineRows == 3  \* rows of an annotated table when checking the outline
MaxTitleRows == 3    \* rows of an annotated table when checking the title
MaxHeurRows == 4     \* rows of a table when checking the heuristic
MaxBatchFiles == 2   \* PDF files in the folder of process_batch
MaxUploadFiles == 2  \* files of one request to /upload
MaxRequests == 2     \* requests the server handles at a time (threads)

(* Texts: the text of the i-th span of a document, upper or lower case.    *)
(* Spans of one document carry different texts, so that a text names its   *)
(* row.                                                                    *)
UpperText == <<"A", "B", "C", "D", "E", "F", "G", "H">>
LowerText == <<"a", "b", "c", "d", "e", "f", "g", "h">>
TextOf(i, upper) == IF upper THEN UpperText[i] ELSE LowerText[i]

\* None of Python; no span text equals it
None == "<None>"
\* a column the table does not have yet
NA == -1

----------------------------------------------------------------------------
(* Columns.  df[mask] of pandas is SelectSeq(df, mask).                    *)

\* sum(xs) of a sequence of numbers
RECURSIVE Sum(_)
Sum(xs) == IF Len(xs) = 0 THEN 0 ELSE Head(xs) + Sum(Tail(xs))

\* max(xs) of a non-empty sequence of numbers
RECURSIVE Max(_)
Max(xs) ==
    IF Len(xs) = 1 THEN xs[1]
    ELSE LET m == Max(Tail(xs)) IN IF Head(xs) > m THEN Head(xs) ELSE m

\* df['font_size'], also [span['font_size'] for span in spans]
font_sizes(df) == [i \in 1..Len(df) |-> df[i].font_size]

----------------------------------------------------------------------------
(* feature_extraction.py: PDFFeatureExtractor                              *)

\* text.isupper() on the model's texts
isupper(text) == \E i \in 1..Len(UpperText) : UpperText[i] = text

\* bool(flags & 2**4)
BoldFlag(flags) == (flags \div 16) % 2 = 1

\* a / b if b > 0 else 0, as an exact fraction
RatioOrZero(a, b) == IF b > 0 THEN [num |-> a, den |-> b] ELSE [num |-> 0, den |-> 1]

\* max(font_sizes) over the whole span list
max_font_size(ss) == Max(font_sizes(ss))

\* the largest font size on the page of span i (used by a mutant)
max_font_size_on_page(ss, i) ==
    LET OnPage(span) == span.page_number = ss[i].page_number
    IN  Max(font_sizes(SelectSeq(ss, OnPage)))

\* (mutant) font_size_ratio taken against the largest font of the span's page
feature_row_per_page(ss, i) ==
    LET span == ss[i] IN
    [ idx             |-> i - 1,
      text            |-> span.text,
      page_number     |-> span.page_number,
      font_size       |-> span.font_size,
      is_bold         |-> IF BoldFlag(span.flags) THEN 1 ELSE 0,
      y_position      |-> span.bbox_y0,
      is_uppercase    |-> IF isupper(span.text) THEN 1 ELSE 0,
      font_size_ratio |-> RatioOrZero(span.font_size, max_font_size_on_page(ss, i)),
      position_ratio  |-> RatioOrZero(span.bbox_y0, span.page_height),
      predicted_class |-> NA,
      max_probability |-> NA ]

\* one row of calculate_features' table
feature_row(ss, i) ==
    LET span == ss[i] IN
    [ idx             |-> i - 1,
      text            |-> span.text,
      page_number     |-> span.page_number,
      font_size       |-> span.font_size,
      is_bold         |-> IF BoldFlag(span.flags) THEN 1 ELSE 0,
      y_position      |-> span.bbox_y0,
      is_uppercase    |-> IF isupper(span.text) THEN 1 ELSE 0,
      font_size_ratio |-> RatioOrZero(span.font_size, max_font_size(ss)),
      position_ratio  |-> RatioOrZero(span.bbox_y0, span.page_height),
      predicted_class |-> NA,
      max_probability |-> NA ]

\* calculate_features: one row per span, in span order; no span, no row
calculate_features(ss) ==
    IF Len(ss) = 0 THEN <<>> ELSE [i \in 1..Len(ss) |-> feature_row(ss, i)]

OnFirstPage(r) == r.page_number = 1

\* (mutant) the largest font is looked up over all pages, not over page 1
identify_title_heuristic_any_page(df) ==
    IF Len(df) = 0 THEN None
    ELSE
    LET first_page == SelectSeq(df, OnFirstPage) IN
    IF Len(first_page) = 0 THEN None
    ELSE
    LET top == Max(font_sizes(df))
        LargestBold(r) == r.font_size = top /\ r.is_bold = 1
        Largest(r) == r.font_size = top
        title_candidates == SelectSeq(first_page, LargestBold)
        largest_text == SelectSeq(first_page, Largest)
    IN  IF Len(title_candidates) > 0 THEN title_candidates[1].text
        ELSE IF Len(largest_text) > 0 THEN largest_text[1].text
        ELSE None

\* identify_title_heuristic
identify_title_heuristic(df) ==
    IF Len(df) = 0 THEN None
    ELSE
    LET first_page == SelectSeq(df, OnFirstPage) IN
    IF Len(first_page) = 0 THEN None
    ELSE
    LET top == Max(font_sizes(first_page))
        LargestBold(r) == r.font_size = top /\ r.is_bold = 1
        Largest(r) == r.font_size = top
        title_candidates == SelectSeq(first_page, LargestBold)
        largest_text == SelectSeq(first_page, Largest)
    IN  IF Len(title_candidates) > 0 THEN title_candidates[1].text
        ELSE IF Len(largest_text) > 0 THEN largest_text[1].text
        ELSE None

----------------------------------------------------------------------------
(* infer.py: DocumentStructureInference                                    *)

\* self.confidence_threshold = 0.6, in tenths
confidence_threshold == 6

\* features_df['max_probability'] = 1.0 of the heuristic, in tenths
heuristic_probability == 10

\* df['font_size'].mean(): sum / count, as an exact fraction
avg_font_size(df) == [num |-> Sum(font_sizes(df)), den |-> Len(df)]

\* df['font_size'].std(): pandas' sample standard deviation (ddof = 1), NaN
\* for fewer than two rows.  Kept by its square sq_num / sq_den, where
\* sq_num = sum over rows of (n*x - sum)^2 and sq_den = n^2 * (n - 1).
std_font_size(df) ==
    LET n == Len(df)
        s == Sum(font_sizes(df))
        sq_dev == [i \in 1..n |-> (n * df[i].font_size - s) * (n * df[i].font_size - s)]
    IN  IF n < 2 THEN [nan |-> TRUE, sq_num |-> 0, sq_den |-> 1]
        ELSE [nan |-> FALSE, sq_num |-> Sum(sq_dev), sq_den |-> n * n * (n - 1)]

\* the factors of std in h1_threshold, h2_threshold, h3_threshold: 1.5, 1.0, 0.5
h1_factor == [num |-> 3, den |-> 2]
h2_factor == [num |-> 1, den |-> 1]
h3_factor == [num |-> 1, den |-> 2]

\* x >= avg + k * std, decided exactly; false when std is NaN.
\* With d = avg.den * x - avg.num:  x - avg >= k * std  iff  d >= 0 and
\* k.den^2 * d^2 * sq_den >= k.num^2 * avg.den^2 * sq_num.
AtLeastThreshold(x, avg, std, k) ==
    /\ ~std.nan
    /\ LET d == avg.den * x - avg.num IN
       /\ d >= 0
       /\ k.den * k.den * d * d * std.sq_den >= k.num * k.num * avg.den * avg.den * std.sq_num

\* (mutant) the choice of the last condition that holds
RECURSIVE np_select_last(_, _, _)
np_select_last(conditions, choices, default) ==
    IF Len(conditions) = 0 THEN default
    ELSE IF conditions[Len(conditions)] THEN choices[Len(choices)]
    ELSE np_select_last(SubSeq(conditions, 1, Len(conditions) - 1),
                        SubSeq(choices, 1, Len(choices) - 1), default)

\* np.select(conditions, choices, default) for one row: the choice of the
\* first condition that holds
RECURSIVE np_select(_, _, _)
np_select(conditions, choices, default) ==
    IF Len(conditions) = 0 THEN default
    ELSE IF Head(conditions) THEN Head(choices)
    ELSE np_select(Tail(conditions), Tail(choices), default)

\* the class _heuristic_heading_detection gives row r of table df
heuristic_class(df, r) ==
    LET avg == avg_font_size(df)
        std == std_font_size(df)
        conditions ==
            << AtLeastThreshold(r.font_size, avg, std, h1_factor) /\ r.is_bold = 1,
               AtLeastThreshold(r.font_size, avg, std, h2_factor) /\ r.is_bold = 1,
               AtLeastThreshold(r.font_size, avg, std, h3_factor)
                   /\ (r.is_bold = 1 \/ r.is_uppercase = 1) >>
        choices == <<3, 2, 1>>
    IN  np_select(conditions, choices, 0)

IsHeading(r) == r.predicted_class > 0

\* (mutant) a class the classifier already gave a row is kept
heuristic_heading_detection_keeping(df) ==
    LET copy == [i \in 1..Len(df) |->
                    [df[i] EXCEPT !.predicted_class =
                                      IF df[i].predicted_class > 0 THEN df[i].predicted_class
                                      ELSE heuristic_class(df, df[i]),
                                  !.max_probability = heuristic_probability]]
    IN  SelectSeq(copy, IsHeading)

\* _heuristic_heading_detection: a copy of the table with the two columns
\* overwritten, cut down to the rows of class > 0
heuristic_heading_detection(df) ==
    LET copy == [i \in 1..Len(df) |->
                    [df[i] EXCEPT !.predicted_class = heuristic_class(df, df[i]),
                                  !.max_probability = heuristic_probability]]
    IN  SelectSeq(copy, IsHeading)

IsConfidentH1(r) == r.predicted_class = 3 /\ r.max_probability > confidence_threshold

\* the index label of the last row holding the largest font size (used by a
\* mutant)
idxmax_last(df) ==
    LET m == Max(font_sizes(df))
        last == CHOOSE i \in 1..Len(df) :
                    /\ df[i].font_size = m
                    /\ \A j \in (i + 1)..Len(df) : df[j].font_size # m
    IN  df[last].idx

\* df['font_size'].idxmax(): the index label of the first row holding the
\* maximum
idxmax(df) ==
    LET m == Max(font_sizes(df))
        first == CHOOSE i \in 1..Len(df) :
                    /\ df[i].font_size = m
                    /\ \A j \in 1..(i - 1) : df[j].font_size # m
    IN  df[first].idx

\* df.loc[label]: the row carrying the index label
loc(df, label) == df[CHOOSE i \in 1..Len(df) : df[i].idx = label]

\* (mutant) among the candidates of the largest size the last one wins
extract_title_last_tie(df) ==
    LET first_page == SelectSeq(df, OnFirstPage)
        h1_candidates == SelectSeq(first_page, IsConfidentH1)
        heuristic == identify_title_heuristic(df)
    IN  IF Len(first_page) > 0 /\ Len(h1_candidates) > 0
        THEN loc(h1_candidates, idxmax_last(h1_candidates)).text
        ELSE IF heuristic # None THEN heuristic ELSE ""

\* _extract_title
extract_title(df) ==
    LET first_page == SelectSeq(df, OnFirstPage)
        h1_candidates == SelectSeq(first_page, IsConfidentH1)
        heuristic == identify_title_heuristic(df)
    IN  IF Len(first_page) > 0 /\ Len(h1_candidates) > 0
        THEN loc(h1_candidates, idxmax(h1_candidates)).text
        ELSE IF heuristic # None THEN heuristic ELSE ""

\* (mutant) the threshold itself counts as confident
IsConfidentHeading_at_threshold(r) ==
    r.predicted_class \in {1, 2, 3} /\ r.max_probability >= confidence_threshold

\* (mutant) class 3 is left out of the heading classes
IsConfidentHeading_without_h1(r) ==
    r.predicted_class \in {1, 2} /\ r.max_probability > confidence_threshold

IsConfidentHeading(r) ==
    r.predicted_class \in {1, 2, 3} /\ r.max_probability > confidence_threshold

\* (mutant) the sort key with the page left out
KeyLeq_y_only(a, b) == a.y_position <= b.y_position

\* the sort key of sort_values(['page_number', 'y_position'])
KeyLeq(a, b) ==
    \/ a.page_number < b.page_number
    \/ a.page_number = b.page_number /\ a.y_position <= b.y_position

KeyLess(a, b) ==
    \/ a.page_number < b.page_number
    \/ a.page_number = b.page_number /\ a.y_position < b.y_position

\* (mutant) a sort that is not stable: a row goes in front of the rows with its key
RECURSIVE InsertSorted_before_ties(_, _)
InsertSorted_before_ties(sorted, r) ==
    IF Len(sorted) = 0 THEN <<r>>
    ELSE IF KeyLess(sorted[Len(sorted)], r) THEN Append(sorted, r)
    ELSE Append(InsertSorted_before_ties(SubSeq(sorted, 1, Len(sorted) - 1), r),
                sorted[Len(sorted)])

\* one row put into a sorted table behind every row whose key is not larger
RECURSIVE InsertSorted(_, _)
InsertSorted(sorted, r) ==
    IF Len(sorted) = 0 THEN <<r>>
    ELSE IF KeyLeq(sorted[Len(sorted)], r) THEN Append(sorted, r)
    ELSE Append(InsertSorted(SubSeq(sorted, 1, Len(sorted) - 1), r), sorted[Len(sorted)])

\* DataFrame.sort_values on two columns: pandas sorts several keys with a
\* stable lexsort, whatever "kind" says
RECURSIVE sort_values(_)
sort_values(df) ==
    IF Len(df) = 0 THEN <<>>
    ELSE InsertSorted(sort_values(SubSeq(df, 1, Len(df) - 1)), df[Len(df)])

\* level_map.get(predicted_class, 'H3')
level_map(class) ==
    IF class = 3 THEN "H1" ELSE IF class = 2 THEN "H2" ELSE "H3"

\* (mutant) the heuristic's rows added to the confident rows
outline_headings_blended(df) ==
    LET confident == SelectSeq(df, IsConfidentHeading)
        NotConfident(r) == ~IsConfidentHeading(df[r.idx + 1])
    IN  sort_values(confident \o SelectSeq(heuristic_heading_detection(df), NotConfident))

\* the table _extract_outline iterates: the confident rows, or the heuristic's
\* rows when there is none, sorted
outline_headings(df) ==
    LET confident == SelectSeq(df, IsConfidentHeading)
        chosen == IF Len(confident) = 0 THEN heuristic_heading_detection(df) ELSE confident
    IN  sort_values(chosen)

\* the loop over headings.iterrows()
outline_of(hs) ==
    [i \in 1..Len(hs) |->
        [level |-> level_map(hs[i].predicted_class),
         text  |-> hs[i].text,
         page  |-> hs[i].page_number]]

\* _extract_outline
extract_outline(df) == outline_of(outline_headings(df))

----------------------------------------------------------------------------
(* Documents and classifier outputs the model draws from.                  *)

\* span i of a document, from a choice c of its properties
MkSpan(i, c) ==
    [ text        |-> TextOf(i, c.upper),
      font_size   |-> c.font_size,
      flags       |-> c.flags,
      bbox_y0     |-> c.y,
      page_number |-> c.page,
      page_height |-> c.page_height ]

\* the document of k spans with the properties f[1], ..., f[k]
MkDoc(k, f) == [i \in 1..k |-> MkSpan(i, f[i])]

\* the classifier's answer for one row: <<predicted_class, max_probability>>
Annotated(df, ann) ==
    [i \in 1..Len(df) |->
        [df[i] EXCEPT !.predicted_class = ann[i][1], !.max_probability = ann[i][2]]]

\* flags: 16 is bold, 2 is italic, 4 is serifed
PipelineChoices ==
    [upper: BOOLEAN, font_size: {10, 12}, flags: {4, 16}, y: {0}, page: {1, 2},
     page_height: {800}]
PipelineAnswers == {<<0, 9>>, <<2, 6>>, <<3, 7>>}

FeatureChoices ==
    [upper: {FALSE}, font_size: {0, 1, 2}, flags: {16}, y: {-1, 0, 2, 3}, page: {1, 2},
     page_height: {0, 2}]

OutlineChoices ==
    { c \in [upper: {FALSE}, font_size: {12}, flags: {4, 16}, y: {0, 1}, page: {1, 2},
             page_height: {800}] : ~(c.page = 2 /\ c.y = 1) }
OutlineAnswers == {<<0, 9>>, <<1, 7>>, <<2, 6>>, <<3, 7>>}

TitleChoices ==
    [upper: {FALSE}, font_size: {10, 12}, flags: {4, 16}, y: {0}, page: {1, 2},
     page_height: {800}]
TitleAnswers == {<<0, 9>>, <<3, 6>>, <<3, 7>>}

HeurChoices ==
    [upper: BOOLEAN, font_size: {10, 12}, flags: {4, 16}, y: {0}, page: {1},
     page_height: {800}]
HeurAnswers == {<<0, 9>>}

----------------------------------------------------------------------------
(* process_pdf, step by step.                                              *)

\* extract_text_spans: the spans of the document, page by page
ExtractTextSpans ==
    /\ pc = "extract"
    /\ spans' = pdf
    /\ pc' = "features"
    /\ UNCHANGED serving_vars
    /\ UNCHANGED <<pdf, features_df, title, headings, used_fallback, heuristic_df,
                   outline, result,
                   predict_calls>>

\* features_df = calculate_features(spans)
CalculateFeatures ==
    /\ pc = "features"
    /\ features_df' = calculate_features(spans)
    /\ pc' = "loaded"
    /\ UNCHANGED serving_vars
    /\ UNCHANGED <<pdf, spans, title, headings, used_fallback, heuristic_df,
                   outline, result,
                   predict_calls>>

\* (mutant) the early return hands back the unset title
ReturnEmpty_unset_title ==
    /\ pc = "loaded"
    /\ Len(features_df) = 0
    /\ result' = [title |-> title, outline |-> <<>>]
    /\ pc' = "done"
    /\ UNCHANGED serving_vars
    /\ UNCHANGED <<pdf, spans, features_df, title, headings, used_fallback, heuristic_df,
                   outline, predict_calls>>

\* if features_df.empty: return {"title": "", "outline": []}
ReturnEmpty ==
    /\ pc = "loaded"
    /\ Len(features_df) = 0
    /\ result' = [title |-> "", outline |-> <<>>]
    /\ pc' = "done"
    /\ UNCHANGED serving_vars
    /\ UNCHANGED <<pdf, spans, features_df, title, headings, used_fallback, heuristic_df,
                   outline,
                   predict_calls>>

\* model.predict(X), model.predict_proba(X) and the two new columns; the
\* classifier is not part of the program, it may answer anything
Predict(Answers) ==
    /\ pc = "loaded"
    /\ Len(features_df) > 0
    /\ \E ann \in [1..Len(features_df) -> Answers] :
          features_df' = Annotated(features_df, ann)
    /\ predict_calls' = predict_calls + 2
    /\ pc' = "title"
    /\ UNCHANGED serving_vars
    /\ UNCHANGED <<pdf, spans, title, headings, used_fallback, heuristic_df,
                   outline, result>>

\* title = self._extract_title(features_df)
ExtractTitle ==
    /\ pc = "title"
    /\ title' = extract_title(features_df)
    /\ pc' = "outline"
    /\ UNCHANGED serving_vars
    /\ UNCHANGED <<pdf, spans, features_df, headings, used_fallback, heuristic_df,
                   outline, result,
                   predict_calls>>

\* outline = self._extract_outline(features_df)
ExtractOutline ==
    /\ pc = "outline"
    /\ headings' = outline_headings(features_df)
    /\ used_fallback' = (Len(SelectSeq(features_df, IsConfidentHeading)) = 0)
    /\ heuristic_df' = IF Len(SelectSeq(features_df, IsConfidentHeading)) = 0
                       THEN heuristic_heading_detection(features_df)
                       ELSE <<>>
    /\ outline' = extract_outline(features_df)
    /\ pc' = "return"
    /\ UNCHANGED serving_vars
    /\ UNCHANGED <<pdf, spans, features_df, title, result, predict_calls>>

\* return {"title": title, "outline": outline}
ReturnResult ==
    /\ pc = "return"
    /\ result' = [title |-> title, outline |-> outline]
    /\ pc' = "done"
    /\ UNCHANGED serving_vars
    /\ UNCHANGED <<pdf, spans, features_df, title, headings, used_fallback, heuristic_df,
                   outline,
                   predict_calls>>

NoResult == [title |-> None, outline |-> <<>>]

\* the threads of the server
Threads == 1..MaxRequests

\* inference_engine = None
NoEngine == 0

\* a thread that handles no request
NoRequest ==
    [route |-> "none", files |-> <<>>, pc |-> "idle", k |-> 0, entries |-> <<>>,
     response |-> "none"]

\* process_batch is not running
NoBatch ==
    /\ batch_pc = "idle"
    /\ pdf_files = <<>>
    /\ batch_done = 0
    /\ results = <<>>
    /\ output_folder = {}

\* the server has just started and handles no request
NoRequests ==
    /\ inference_engine = NoEngine
    /\ model_exists = FALSE
    /\ load_count = 0
    /\ train_count = 0
    /\ upload_folder = {}
    /\ req = [t \in Threads |-> NoRequest]

\* process_pdf is called on a document
InitAt(doc) ==
    /\ pc = "extract"
    /\ pdf = doc
    /\ spans = <<>>
    /\ features_df = <<>>
    /\ title = None
    /\ headings = <<>>
    /\ used_fallback = FALSE
    /\ heuristic_df = <<>>
    /\ outline = <<>>
    /\ result = NoResult
    /\ predict_calls = 0
    /\ NoBatch
    /\ NoRequests

\* process_pdf has annotated the feature table of a document
InitAnnotated(doc, ann) ==
    /\ pc = "title"
    /\ pdf = doc
    /\ spans = doc
    /\ features_df = Annotated(calculate_features(doc), ann)
    /\ title = None
    /\ headings = <<>>
    /\ used_fallback = FALSE
    /\ heuristic_df = <<>>
    /\ outline = <<>>
    /\ result = NoResult
    /\ predict_calls = 2
    /\ NoBatch
    /\ NoRequests

Init ==
    \E k \in 0..MaxSpans : \E f \in [1..k -> PipelineChoices] : InitAt(MkDoc(k, f))

Next ==
    \/ ExtractTextSpans
    \/ CalculateFeatures
    \/ ReturnEmpty
    \/ Predict(PipelineAnswers)
    \/ ExtractTitle
    \/ ExtractOutline
    \/ ReturnResult

Spec == Init /\ [][Next]_vars

\* calculate_features on its own, over a wider range of spans
InitFeatures ==
    \E k \in 0..MaxFeatureSpans : \E f \in [1..k -> FeatureChoices] : InitAt(MkDoc(k, f))
NextFeatures == ExtractTextSpans \/ CalculateFeatures
SpecFeatures == InitFeatures /\ [][NextFeatures]_vars

\* the resolvers on their own, over annotated tables
NextResolve == ExtractTitle \/ ExtractOutline \/ ReturnResult

InitOutline ==
    \E k \in 1..MaxOutlineRows : \E f \in [1..k -> OutlineChoices], ann \in [1..k -> OutlineAnswers] :
        InitAnnotated(MkDoc(k, f), ann)
SpecOutline == InitOutline /\ [][NextResolve]_vars

InitTitle ==
    \E k \in 1..MaxTitleRows : \E f \in [1..k -> TitleChoices], ann \in [1..k -> TitleAnswers] :
        InitAnnotated(MkDoc(k, f), ann)
SpecTitle == InitTitle /\ [][NextResolve]_vars

InitHeuristic ==
    \E k \in 1..MaxHeurRows : \E f \in [1..k -> HeurChoices], ann \in [1..k -> HeurAnswers] :
        InitAnnotated(MkDoc(k, f), ann)
SpecHeuristic == InitHeuristic /\ [][NextResolve]_vars

\* annotated tables in which every class is seen above the threshold and a
\* heading class is seen at the threshold itself
MaxEmissionRows == 3
EmissionChoices ==
    { c \in [upper: {FALSE}, font_size: {12}, flags: {16}, y: {0, 1}, page: {1, 2},
             page_height: {800}] : ~(c.page = 2 /\ c.y = 1) }
EmissionAnswers == {<<0, 9>>, <<1, 7>>, <<2, 7>>, <<3, 7>>, <<2, 6>>}
InitEmission ==
    \E k \in 1..MaxEmissionRows :
        \E f \in [1..k -> EmissionChoices], ann \in [1..k -> EmissionAnswers] :
            InitAnnotated(MkDoc(k, f), ann)
SpecEmission == InitEmission /\ [][NextResolve]_vars

\* tables the classifier has annotated with classes it is not confident of
MaxRerunRows == 3
RerunChoices ==
    [upper: BOOLEAN, font_size: {10, 12}, flags: {4, 16}, y: {0}, page: {1},
     page_height: {800}]
RerunAnswers == {<<0, 9>>, <<3, 6>>}
InitRerun ==
    \E k \in 1..MaxRerunRows :
        \E f \in [1..k -> RerunChoices], ann \in [1..k -> RerunAnswers] :
            InitAnnotated(MkDoc(k, f), ann)
SpecRerun == InitRerun /\ [][NextResolve]_vars


----------------------------------------------------------------------------
(* process_pdf as one call, and process_batch (infer.py).  A file carries  *)
(* the spans it holds and what goes wrong with it: fitz cannot read it     *)
(* ("extract"), the classifier rejects its feature table ("predict"), its  *)
(* JSON output cannot be written ("write"), the saved upload cannot be     *)
(* deleted ("remove"), or nothing ("none").                                *)

\* process_pdf is not running
NoDocument ==
    /\ pc = "idle"
    /\ pdf = <<>>
    /\ spans = <<>>
    /\ features_df = <<>>
    /\ title = None
    /\ headings = <<>>
    /\ used_fallback = FALSE
    /\ heuristic_df = <<>>
    /\ outline = <<>>
    /\ result = NoResult
    /\ predict_calls = 0

\* process_pdf raises on the file: extract_text_spans raises, or predict or
\* predict_proba raises, which are only called on a table that is not empty
process_pdf_raises(file) ==
    \/ file.fault = "extract"
    \/ file.fault = "predict" /\ Len(calculate_features(file.doc)) > 0

\* what process_pdf returns for a document when the classifier answers ann
process_pdf(doc, ann) ==
    LET df == calculate_features(doc)
    IN  IF Len(df) = 0 THEN [title |-> "", outline |-> <<>>]
        ELSE [title   |-> extract_title(Annotated(df, ann)),
              outline |-> extract_outline(Annotated(df, ann))]

\* {"error": str(e)}
error_record(file) == [error |-> file.fault]

\* d[key] = value of a dict
dict_set(d, key, value) ==
    [n \in DOMAIN d \cup {key} |-> IF n = key THEN value ELSE d[n]]

\* the names glob gives the files of a folder, all different
FileName == <<"a.pdf", "b.pdf", "c.pdf", "d.pdf">>

BatchChoice ==
    [upper |-> TRUE, font_size |-> 12, flags |-> 16, y |-> 0, page |-> 1,
     page_height |-> 800]
BatchDocs == {<<>>, MkDoc(1, <<BatchChoice>>)}
BatchFaults == {"none", "extract", "predict", "write"}
BatchAnswers == {<<0, 9>>, <<3, 7>>}

\* the try block of the loop runs to its end for the next file: process_pdf
\* returns, the JSON output is written and the result is stored
BatchFileProcessed ==
    /\ batch_pc = "loop"
    /\ batch_done < Len(pdf_files)
    /\ LET pdf_file == pdf_files[batch_done + 1]
       IN  /\ ~process_pdf_raises(pdf_file)
           /\ pdf_file.fault # "write"
           /\ \E ann \in [1..Len(pdf_file.doc) -> BatchAnswers] :
                 results' = dict_set(results, pdf_file.name,
                                     process_pdf(pdf_file.doc, ann))
           /\ output_folder' = output_folder \cup {pdf_file.name}
    /\ batch_done' = batch_done + 1
    /\ UNCHANGED <<batch_pc, pdf_files>>
    /\ UNCHANGED <<pdf_vars, web_vars>>

\* the try block raises for the next file, the exception is re-raised and
\* ends process_batch
BatchFileFailed_propagating ==
    /\ batch_pc = "loop"
    /\ batch_done < Len(pdf_files)
    /\ LET pdf_file == pdf_files[batch_done + 1]
       IN  process_pdf_raises(pdf_file) \/ pdf_file.fault = "write"
    /\ batch_pc' = "raised"
    /\ UNCHANGED <<pdf_files, batch_done, results, output_folder>>
    /\ UNCHANGED <<pdf_vars, web_vars>>

\* the try block raises for the next file: the except branch stores an error
\* record and the loop goes on
BatchFileFailed ==
    /\ batch_pc = "loop"
    /\ batch_done < Len(pdf_files)
    /\ LET pdf_file == pdf_files[batch_done + 1]
       IN  /\ process_pdf_raises(pdf_file) \/ pdf_file.fault = "write"
           /\ results' = dict_set(results, pdf_file.name, error_record(pdf_file))
    /\ batch_done' = batch_done + 1
    /\ UNCHANGED <<batch_pc, pdf_files, output_folder>>
    /\ UNCHANGED <<pdf_vars, web_vars>>

\* the loop is over: return results
BatchReturn ==
    /\ batch_pc = "loop"
    /\ batch_done = Len(pdf_files)
    /\ batch_pc' = "returned"
    /\ UNCHANGED <<pdf_files, batch_done, results, output_folder>>
    /\ UNCHANGED <<pdf_vars, web_vars>>

NextBatch == BatchFileProcessed \/ BatchFileFailed \/ BatchReturn

\* process_batch is called on a folder of at most MaxBatchFiles PDF files
InitBatch ==
    /\ NoDocument
    /\ NoRequests
    /\ batch_pc = "loop"
    /\ batch_done = 0
    /\ results = <<>>
    /\ output_folder = {}
    /\ \E n \in 0..MaxBatchFiles :
          \E d \in [1..n -> BatchDocs], f \in [1..n -> BatchFaults] :
              pdf_files = [i \in 1..n |->
                              [name |-> FileName[i], doc |-> d[i], fault |-> f[i]]]


----------------------------------------------------------------------------
(* routes.py: the web application.  Every request runs in a thread of its  *)
(* own; a step of a handler that reads or writes the global                *)
(* inference_engine, the model file or the upload folder is one action.    *)

\* allowed_file: the name has an extension and it is pdf
allowed_file(filename) == filename.ext = "pdf"

\* os.path.join(UPLOAD_FOLDER, unique_filename): the uuid of the request,
\* which t stands for, and the name of the file
filepath(t, file) == <<t, file.filename>>

\* the record /upload gives a file that was processed
success_record(file, res) ==
    [filename |-> file.filename, result |-> res, success |-> TRUE]

\* the record /upload gives a file whose processing raised
failure_record(file) ==
    [filename |-> file.filename, error |-> file.fault, success |-> FALSE]

\* the record /upload gives a file whose name is not allowed
invalid_record(file) ==
    [filename |-> file.filename, error |-> "Invalid file type", success |-> FALSE]

\* what init_model's failure makes the handler answer
init_failure(route) == IF route = "api" THEN "500" ELSE "redirect"

\* the file the handler of thread t is at
current_file(t) == req[t].files[req[t].k + 1]

WebAnswers == {<<3, 7>>}
WebFaults == {"none", "extract", "write", "remove"}
WebFiles ==
    { [filename |-> [stem |-> "a", ext |-> "pdf"],
       doc |-> MkDoc(1, <<BatchChoice>>), fault |-> f] : f \in WebFaults }
    \cup { [filename |-> [stem |-> "a", ext |-> "txt"],
            doc |-> MkDoc(1, <<BatchChoice>>), fault |-> "none"] }

\* "if inference_engine is None:" at the head of upload_files and api_process
CheckEngine(t) ==
    /\ req[t].pc = "start"
    /\ req' = [req EXCEPT ![t].pc =
                 IF inference_engine = NoEngine THEN "init_model" ELSE "validate"]
    /\ UNCHANGED <<inference_engine, model_exists, load_count, train_count,
                   upload_folder>>
    /\ UNCHANGED <<pdf_vars, batch_vars>>

\* init_model: "if not os.path.exists(model_path):"
InitModelExists(t) ==
    /\ req[t].pc = "init_model"
    /\ req' = [req EXCEPT ![t].pc = IF model_exists THEN "load" ELSE "train"]
    /\ UNCHANGED <<inference_engine, model_exists, load_count, train_count,
                   upload_folder>>
    /\ UNCHANGED <<pdf_vars, batch_vars>>

\* init_model: train_document_classifier trains and writes the model file
TrainModel(t) ==
    /\ req[t].pc = "train"
    /\ train_count' = train_count + 1
    /\ model_exists' = TRUE
    /\ req' = [req EXCEPT ![t].pc = "load"]
    /\ UNCHANGED <<inference_engine, load_count, upload_folder>>
    /\ UNCHANGED <<pdf_vars, batch_vars>>

\* init_model: train_document_classifier raises, init_model returns False
TrainModelFails(t) ==
    /\ req[t].pc = "train"
    /\ req' = [req EXCEPT ![t].pc = "responded",
                          ![t].response = init_failure(req[t].route)]
    /\ UNCHANGED <<inference_engine, model_exists, load_count, train_count,
                   upload_folder>>
    /\ UNCHANGED <<pdf_vars, batch_vars>>

\* init_model: "inference_engine = DocumentStructureInference(model_path)"
LoadModel(t) ==
    /\ req[t].pc = "load"
    /\ load_count' = load_count + 1
    /\ inference_engine' = load_count + 1
    /\ req' = [req EXCEPT ![t].pc = "validate"]
    /\ UNCHANGED <<model_exists, train_count, upload_folder>>
    /\ UNCHANGED <<pdf_vars, batch_vars>>

\* init_model: DocumentStructureInference raises, init_model returns False
LoadModelFails(t) ==
    /\ req[t].pc = "load"
    /\ req' = [req EXCEPT ![t].pc = "responded",
                          ![t].response = init_failure(req[t].route)]
    /\ UNCHANGED <<inference_engine, model_exists, load_count, train_count,
                   upload_folder>>
    /\ UNCHANGED <<pdf_vars, batch_vars>>

\* api_process: a request without a file or with a name that is not allowed
\* is answered with 400; otherwise the try block is entered
ApiValidate(t) ==
    /\ req[t].route = "api"
    /\ req[t].pc = "validate"
    /\ req' = IF Len(req[t].files) = 0 \/ ~allowed_file(current_file(t).filename)
              THEN [req EXCEPT ![t].pc = "responded", ![t].response = "400"]
              ELSE [req EXCEPT ![t].pc = "save"]
    /\ UNCHANGED <<inference_engine, model_exists, load_count, train_count,
                   upload_folder>>
    /\ UNCHANGED <<pdf_vars, batch_vars>>

\* api_process: file.save(filepath)
ApiSave(t) ==
    /\ req[t].route = "api"
    /\ req[t].pc = "save"
    /\ upload_folder' = upload_folder \cup {filepath(t, current_file(t))}
    /\ req' = [req EXCEPT ![t].pc = "process"]
    /\ UNCHANGED <<inference_engine, model_exists, load_count, train_count>>
    /\ UNCHANGED <<pdf_vars, batch_vars>>

\* api_process: process_pdf returns, os.remove(filepath) deletes the upload
\* and the result is answered
ApiProcessed(t) ==
    /\ req[t].route = "api"
    /\ req[t].pc = "process"
    /\ ~process_pdf_raises(current_file(t))
    /\ current_file(t).fault # "remove"
    /\ upload_folder' = upload_folder \ {filepath(t, current_file(t))}
    /\ \E ann \in [1..Len(current_file(t).doc) -> WebAnswers] :
          req' = [req EXCEPT ![t].pc = "responded", ![t].response = "200",
                             ![t].k = 1,
                             ![t].entries =
                                 <<process_pdf(current_file(t).doc, ann)>>]
    /\ UNCHANGED <<inference_engine, model_exists, load_count, train_count>>
    /\ UNCHANGED <<pdf_vars, batch_vars>>

\* api_process: process_pdf or os.remove raises; the except branch answers
\* 500 with the error
ApiFailed(t) ==
    /\ req[t].route = "api"
    /\ req[t].pc = "process"
    /\ process_pdf_raises(current_file(t)) \/ current_file(t).fault = "remove"
    /\ req' = [req EXCEPT ![t].pc = "responded", ![t].response = "500",
                          ![t].k = 1,
                          ![t].entries = <<error_record(current_file(t))>>]
    /\ UNCHANGED <<inference_engine, model_exists, load_count, train_count,
                   upload_folder>>
    /\ UNCHANGED <<pdf_vars, batch_vars>>

\* upload_files: a request without files is redirected; otherwise the loop
\* starts with results = []
UploadValidate(t) ==
    /\ req[t].route = "upload"
    /\ req[t].pc = "validate"
    /\ req' = IF Len(req[t].files) = 0
              THEN [req EXCEPT ![t].pc = "responded", ![t].response = "redirect"]
              ELSE [req EXCEPT ![t].pc = "loop"]
    /\ UNCHANGED <<inference_engine, model_exists, load_count, train_count,
                   upload_folder>>
    /\ UNCHANGED <<pdf_vars, batch_vars>>

\* upload_files: the next file has an allowed name; file.save(filepath)
UploadSave(t) ==
    /\ req[t].route = "upload"
    /\ req[t].pc = "loop"
    /\ req[t].k < Len(req[t].files)
    /\ allowed_file(current_file(t).filename)
    /\ upload_folder' = upload_folder \cup {filepath(t, current_file(t))}
    /\ req' = [req EXCEPT ![t].pc = "process"]
    /\ UNCHANGED <<inference_engine, model_exists, load_count, train_count>>
    /\ UNCHANGED <<pdf_vars, batch_vars>>

\* upload_files: the next file has a name that is not allowed
UploadReject(t) ==
    /\ req[t].route = "upload"
    /\ req[t].pc = "loop"
    /\ req[t].k < Len(req[t].files)
    /\ ~allowed_file(current_file(t).filename)
    /\ req' = [req EXCEPT ![t].k = @ + 1,
                          ![t].entries = Append(@, invalid_record(current_file(t)))]
    /\ UNCHANGED <<inference_engine, model_exists, load_count, train_count,
                   upload_folder>>
    /\ UNCHANGED <<pdf_vars, batch_vars>>

\* upload_files: the try block runs to its end: process_pdf returns, the JSON
\* output is written, the record is appended and the upload is deleted
UploadProcessed(t) ==
    /\ req[t].route = "upload"
    /\ req[t].pc = "process"
    /\ ~process_pdf_raises(current_file(t))
    /\ current_file(t).fault \notin {"write", "remove"}
    /\ upload_folder' = upload_folder \ {filepath(t, current_file(t))}
    /\ \E ann \in [1..Len(current_file(t).doc) -> WebAnswers] :
          req' = [req EXCEPT ![t].pc = "loop", ![t].k = @ + 1,
                             ![t].entries =
                                 Append(@, success_record(current_file(t),
                                     process_pdf(current_file(t).doc, ann)))]
    /\ UNCHANGED <<inference_engine, model_exists, load_count, train_count>>
    /\ UNCHANGED <<pdf_vars, batch_vars>>

\* upload_files: process_pdf or the writing of the JSON output raises; the
\* except branch appends an error record
UploadFailed(t) ==
    /\ req[t].route = "upload"
    /\ req[t].pc = "process"
    /\ process_pdf_raises(current_file(t)) \/ current_file(t).fault = "write"
    /\ req' = [req EXCEPT ![t].pc = "loop", ![t].k = @ + 1,
                          ![t].entries = Append(@, failure_record(current_file(t)))]
    /\ UNCHANGED <<inference_engine, model_exists, load_count, train_count,
                   upload_folder>>
    /\ UNCHANGED <<pdf_vars, batch_vars>>

\* upload_files: the record of the success is appended and then os.remove
\* raises; the except branch appends an error record for the same file
UploadRemoveFailed(t) ==
    /\ req[t].route = "upload"
    /\ req[t].pc = "process"
    /\ ~process_pdf_raises(current_file(t))
    /\ current_file(t).fault = "remove"
    /\ \E ann \in [1..Len(current_file(t).doc) -> WebAnswers] :
          req' = [req EXCEPT ![t].pc = "loop", ![t].k = @ + 1,
                             ![t].entries =
                                 Append(Append(@, success_record(current_file(t),
                                            process_pdf(current_file(t).doc, ann))),
                                        failure_record(current_file(t)))]
    /\ UNCHANGED <<inference_engine, model_exists, load_count, train_count,
                   upload_folder>>
    /\ UNCHANGED <<pdf_vars, batch_vars>>

\* upload_files: the loop is over; render_template('index.html', results)
UploadRender(t) ==
    /\ req[t].route = "upload"
    /\ req[t].pc = "loop"
    /\ req[t].k = Len(req[t].files)
    /\ req' = [req EXCEPT ![t].pc = "responded", ![t].response = "rendered"]
    /\ UNCHANGED <<inference_engine, model_exists, load_count, train_count,
                   upload_folder>>
    /\ UNCHANGED <<pdf_vars, batch_vars>>

NextInitModel ==
    \E t \in Threads :
        \/ CheckEngine(t)
        \/ InitModelExists(t)
        \/ TrainModel(t)
        \/ TrainModelFails(t)
        \/ LoadModel(t)
        \/ LoadModelFails(t)

NextUpload ==
    \E t \in Threads :
        \/ UploadValidate(t)
        \/ UploadSave(t)
        \/ UploadReject(t)
        \/ UploadProcessed(t)
        \/ UploadFailed(t)
        \/ UploadRemoveFailed(t)
        \/ UploadRender(t)

NextApi ==
    \E t \in Threads :
        \/ ApiValidate(t)
        \/ ApiSave(t)
        \/ ApiProcessed(t)
        \/ ApiFailed(t)

\* a request to route with the given files arrives at thread t
NewRequest(route, files) ==
    [route |-> route, files |-> files, pc |-> "start", k |-> 0, entries |-> <<>>,
     response |-> "none"]

\* the requests /upload can get: at most MaxUploadFiles files
UploadRequests ==
    UNION { { NewRequest("upload", fs) : fs \in [1..n -> WebFiles] } :
            n \in 0..MaxUploadFiles }

\* the requests /api/process can get: one file or none
ApiRequests ==
    UNION { { NewRequest("api", fs) : fs \in [1..n -> WebFiles] } : n \in 0..1 }

\* the server has just started, with or without a model file on disk
ServerStarted ==
    /\ NoDocument
    /\ NoBatch
    /\ inference_engine = NoEngine
    /\ model_exists \in BOOLEAN
    /\ load_count = 0
    /\ train_count = 0
    /\ upload_folder = {}

\* one request to /upload arrives
InitUpload ==
    /\ ServerStarted
    /\ \E r \in UploadRequests :
          req = [t \in Threads |-> IF t = 1 THEN r ELSE NoRequest]

\* process_batch run on a folder, or /upload serving one request
InitIsolation == InitBatch \/ InitUpload
NextIsolation == NextBatch \/ NextInitModel \/ NextUpload
SpecIsolation == InitIsolation /\ [][NextIsolation]_vars

\* MaxRequests requests to /upload and /api/process arrive together
InitWeb ==
    /\ ServerStarted
    /\ req \in [Threads -> UploadRequests \cup ApiRequests]
NextWeb == NextInitModel \/ NextUpload \/ NextApi
SpecWeb == InitWeb /\ [][NextWeb]_vars

----------------------------------------------------------------------------
(* Properties.                                                             *)

\* _extract_outline has returned
OutlineExtracted == pc \in {"return", "done"}

\* the position in features_df of the row with text t (texts name their rows)
RowOfText(t) == CHOOSE i \in 1..Len(features_df) : features_df[i].text = t

\* the rows that pass the classifier filter: class 1, 2 or 3, probability > 0.6
PassedFilter == { i \in 1..Len(features_df) :
                    /\ features_df[i].predicted_class \in {1, 2, 3}
                    /\ features_df[i].max_probability > 6 }

\* C1: all-or-nothing fallback.  If some row passes the classifier filter,
\* every heading of the outline comes from a row that passed it; if no row
\* passes, every heading comes from _heuristic_heading_detection run over the
\* whole table.  The outline never mixes the two sources.
C1_AllOrNothing ==
    OutlineExtracted =>
        LET heur == heuristic_heading_detection(features_df) IN
        IF PassedFilter # {}
        THEN \A j \in 1..Len(outline) :
                \E i \in PassedFilter :
                    /\ features_df[i].text = outline[j].text
                    /\ features_df[i].page_number = outline[j].page
        ELSE \A j \in 1..Len(outline) :
                \E k \in 1..Len(heur) :
                    /\ heur[k].text = outline[j].text
                    /\ heur[k].page_number = outline[j].page

\* C1 witness: the outline was built while one row passed the filter and
\* another row, which did not, is a heading for the heuristic
C1_Witness ==
    /\ pc = "done"
    /\ PassedFilter # {}
    /\ Len(outline) > 0
    /\ \E k \in 1..Len(heuristic_heading_detection(features_df)) :
          (heuristic_heading_detection(features_df)[k].idx + 1) \notin PassedFilter

\* C2: the outline is ordered by page and then by y_position of the source
\* rows, on the classifier path and on the heuristic path
C2_Monotonic ==
    OutlineExtracted =>
        \A i, j \in 1..Len(outline) :
            i < j =>
                LET a == features_df[RowOfText(outline[i].text)]
                    b == features_df[RowOfText(outline[j].text)]
                IN  \/ outline[i].page < outline[j].page
                    \/ /\ outline[i].page = outline[j].page
                       /\ a.y_position <= b.y_position

\* C2 witness: an outline of three headings whose rows came in another order,
\* a later page first and a lower y first
C2_Witness ==
    /\ pc = "done"
    /\ Len(outline) >= 3
    /\ \E i, j \in 1..Len(outline) :
          /\ i < j
          /\ RowOfText(outline[i].text) > RowOfText(outline[j].text)
          /\ outline[i].page < outline[j].page
          /\ features_df[RowOfText(outline[i].text)].y_position
                > features_df[RowOfText(outline[j].text)].y_position

\* C3: the sort is stable: two headings with the same page and the same
\* y_position keep the order their rows have in the feature table
C3_Stable ==
    OutlineExtracted =>
        \A i, j \in 1..Len(outline) :
            LET a == features_df[RowOfText(outline[i].text)]
                b == features_df[RowOfText(outline[j].text)]
            IN  (i < j /\ a.page_number = b.page_number /\ a.y_position = b.y_position)
                    => a.idx < b.idx

\* C3 witness: two headings tie on page and y_position, and a row that came
\* between them in the table was sorted in front of both
C3_Witness ==
    /\ pc = "done"
    /\ \E i, j, k \in 1..Len(outline) :
          LET a == features_df[RowOfText(outline[i].text)]
              b == features_df[RowOfText(outline[j].text)]
              c == features_df[RowOfText(outline[k].text)]
          IN  /\ k < i /\ i < j
              /\ a.page_number = b.page_number /\ a.y_position = b.y_position
              /\ a.idx < c.idx /\ c.idx < b.idx

\* _extract_title has returned
TitleExtracted == pc \in {"outline", "return", "done"}

\* the page-1 rows of class 3 (H1) with probability > 0.6
ConfidentH1OnPage1 == { i \in 1..Len(features_df) :
                          /\ features_df[i].page_number = 1
                          /\ features_df[i].predicted_class = 3
                          /\ features_df[i].max_probability > 6 }

\* C4: when some page-1 row is a confident H1, the title is the text of the
\* confident page-1 H1 row of largest font_size, the earliest one among those
\* of that size; no other row wins
C4_TitleClassifier ==
    (TitleExtracted /\ ConfidentH1OnPage1 # {}) =>
        \E i \in ConfidentH1OnPage1 :
            /\ title = features_df[i].text
            /\ \A j \in ConfidentH1OnPage1 :
                  /\ features_df[j].font_size <= features_df[i].font_size
                  /\ features_df[j].font_size = features_df[i].font_size => i <= j

\* C4 witness: two confident page-1 H1 rows tie on the largest font size among
\* the candidates, and the page-1 heuristic would have answered otherwise
C4_Witness ==
    /\ pc = "done"
    /\ \E i, j \in ConfidentH1OnPage1 :
          /\ i < j
          /\ features_df[i].font_size = features_df[j].font_size
          /\ \A k \in ConfidentH1OnPage1 :
                features_df[k].font_size <= features_df[i].font_size
    /\ title # identify_title_heuristic(features_df)

\* C5: when no page-1 row is a confident H1, the title is the text of the
\* first page-1 row that is bold and has the largest page-1 font size; failing
\* that, of the first page-1 row with the largest page-1 font size; and "" when
\* page 1 has no row.  Only text, font_size and is_bold of page-1 rows count.
C5_TitleHeuristic ==
    (TitleExtracted /\ ConfidentH1OnPage1 = {}) =>
        LET page1 == { i \in 1..Len(features_df) : features_df[i].page_number = 1 }
            largest == { i \in page1 :
                           \A j \in page1 : features_df[j].font_size <= features_df[i].font_size }
            bold == { i \in largest : features_df[i].is_bold = 1 }
            First(S) == CHOOSE i \in S : \A j \in S : i <= j
        IN  title = IF page1 = {} THEN ""
                    ELSE IF bold # {} THEN features_df[First(bold)].text
                    ELSE features_df[First(largest)].text

\* C5 witness: no confident H1 on page 1; on page 1 a row of the largest size
\* that is not bold comes before a bold one; a confident H1 with a larger font
\* is on page 2
C5_Witness ==
    /\ pc = "done"
    /\ ConfidentH1OnPage1 = {}
    /\ \E i, j, k \in 1..Len(features_df) :
          /\ i < j
          /\ features_df[i].page_number = 1 /\ features_df[j].page_number = 1
          /\ features_df[i].font_size = features_df[j].font_size
          /\ features_df[i].is_bold = 0 /\ features_df[j].is_bold = 1
          /\ title = features_df[j].text
          /\ features_df[k].page_number = 2
          /\ features_df[k].predicted_class = 3 /\ features_df[k].max_probability > 6
          /\ features_df[k].font_size > features_df[j].font_size

\* C6: a document without spans gives no feature row, and process_pdf
\* returns {"title": "", "outline": []} without an error and without calling
\* predict or predict_proba
C6_EmptyDocument ==
    Len(pdf) = 0 =>
        /\ pc \in {"extract", "features", "loaded", "done"}
        /\ pc \in {"loaded", "done"} => Len(features_df) = 0
        /\ predict_calls = 0
        /\ pc = "done" => result = [title |-> "", outline |-> <<>>]

\* C6 witness: process_pdf has returned for a document without spans
C6_Witness == pc = "done" /\ Len(pdf) = 0 /\ Len(spans) = 0

\* the class the rule of C7 gives row i: with n rows, s the sum of the font
\* sizes and q the sum of (n*x - s)^2, "x >= mean + (a/b)*std" is
\* n >= 2, n*x - s >= 0 and b^2 * (n*x - s)^2 * (n - 1) >= a^2 * q
\* (std is the sample standard deviation; it is undefined for one row, and
\* no size test passes then)
RuleClass(i) ==
    LET n == Len(features_df)
        x == features_df[i].font_size
        s == Sum(font_sizes(features_df))
        q == Sum([k \in 1..n |-> (n * features_df[k].font_size - s)
                                    * (n * features_df[k].font_size - s)])
        AtLeast(a, b) == /\ n >= 2
                         /\ n * x - s >= 0
                         /\ b * b * (n * x - s) * (n * x - s) * (n - 1) >= a * a * q
        bold == features_df[i].is_bold = 1
        upper == features_df[i].is_uppercase = 1
    IN  IF AtLeast(3, 2) /\ bold THEN 3
        ELSE IF AtLeast(2, 2) /\ bold THEN 2
        ELSE IF AtLeast(1, 2) /\ (bold \/ upper) THEN 1
        ELSE 0

\* C7: _heuristic_heading_detection gives each row the class of the first
\* rule that matches (3: size >= mean + 1.5 std and bold; 2: size >= mean +
\* std and bold; 1: size >= mean + 0.5 std and bold or uppercase; else 0) and
\* returns exactly the rows of class # 0, in input order, each with
\* max_probability 1.0 and its other columns untouched
C7_HeuristicRule ==
    (OutlineExtracted /\ used_fallback) =>
        LET kept == SelectSeq([i \in 1..Len(features_df) |-> i],
                              LAMBDA i : RuleClass(i) # 0)
        IN  heuristic_df =
                [k \in 1..Len(kept) |->
                    [features_df[kept[k]] EXCEPT !.predicted_class = RuleClass(kept[k]),
                                                 !.max_probability = 10]]

\* C7 witness: the heuristic ran over rows of different font sizes, gave class
\* 3 to a row (which matches all three rules) and dropped a body row
C7_Witness ==
    /\ pc = "done"
    /\ used_fallback
    /\ \E i, j \in 1..Len(features_df) :
          features_df[i].font_size # features_df[j].font_size
    /\ \E k \in 1..Len(heuristic_df) : heuristic_df[k].predicted_class = 3
    /\ 0 < Len(heuristic_df) /\ Len(heuristic_df) < Len(features_df)

\* all rows of the feature table have the same font size
SameFontSize ==
    \A i, j \in 1..Len(features_df) :
        features_df[i].font_size = features_df[j].font_size

\* the class the heuristic gave row i: that of its row in heuristic_df, 0
\* (body) when the row was dropped
HeuristicClassOf(i) ==
    IF \E k \in 1..Len(heuristic_df) : heuristic_df[k].idx = features_df[i].idx
    THEN heuristic_df[CHOOSE k \in 1..Len(heuristic_df) :
                        heuristic_df[k].idx = features_df[i].idx].predicted_class
    ELSE 0

\* C8 (as claimed): in a non-empty table whose rows all have the same font
\* size, one row included, the heuristic decides by style alone: a bold row is
\* H1 (3), a non-bold uppercase row is H3 (1), any other row is body (0)
C8_ZeroSpreadByStyle ==
    (OutlineExtracted /\ used_fallback /\ SameFontSize) =>
        \A i \in 1..Len(features_df) :
            HeuristicClassOf(i) =
                IF features_df[i].is_bold = 1 THEN 3
                ELSE IF features_df[i].is_uppercase = 1 THEN 1
                ELSE 0

\* the feature table has been computed
FeaturesComputed == pc = "loaded"

\* C9: for a non-empty document, font_size_ratio is font_size over the
\* largest font size of the whole document; with positive font sizes it lies
\* in [0, 1] and is 1 for every span of that largest size; it is 0 for every
\* span when the largest size is <= 0
C9_FontSizeRatio ==
    (FeaturesComputed /\ Len(spans) > 0) =>
        LET top == CHOOSE m \in { spans[i].font_size : i \in 1..Len(spans) } :
                      \A i \in 1..Len(spans) : spans[i].font_size <= m
        IN  /\ Len(features_df) = Len(spans)
            /\ \A i \in 1..Len(spans) :
                  LET ratio == features_df[i].font_size_ratio IN
                  /\ ratio.den > 0
                  /\ top > 0 => ratio.num * top = spans[i].font_size * ratio.den
                  /\ top <= 0 => ratio.num = 0
                  /\ (\A j \in 1..Len(spans) : spans[j].font_size > 0) =>
                        /\ 0 <= ratio.num /\ ratio.num <= ratio.den
                        /\ spans[i].font_size = top => ratio.num = ratio.den

\* C9 witness: a document of positive font sizes whose largest font is on
\* page 1, while the largest font of page 2 is smaller
C9_Witness ==
    /\ FeaturesComputed
    /\ \A j \in 1..Len(spans) : spans[j].font_size > 0
    /\ \E i, j \in 1..Len(spans) :
          /\ spans[i].page_number = 1 /\ spans[j].page_number = 2
          /\ spans[i].font_size > spans[j].font_size
          /\ \A k \in 1..Len(spans) :
                spans[k].page_number = 2 => spans[k].font_size <= spans[j].font_size
          /\ features_df[j].font_size_ratio.num < features_df[j].font_size_ratio.den

\* C10 (as claimed): position_ratio is y_position / page_height and lies in
\* [0, 1] when page_height > 0, and is 0 when page_height <= 0, whatever bbox
\* the span source reports
C10_PositionRatioInUnitInterval ==
    FeaturesComputed =>
        \A i \in 1..Len(features_df) :
            LET ratio == features_df[i].position_ratio IN
            /\ ratio.den > 0
            /\ IF spans[i].page_height > 0
               THEN /\ ratio.num * spans[i].page_height = spans[i].bbox_y0 * ratio.den
                    /\ 0 <= ratio.num /\ ratio.num <= ratio.den
               ELSE ratio.num = 0

\* the heading the outline owes row i on the classifier path
HeadingOfRow(i) ==
    [level |-> IF features_df[i].predicted_class = 3 THEN "H1"
               ELSE IF features_df[i].predicted_class = 2 THEN "H2"
               ELSE "H3",
     text  |-> features_df[i].text,
     page  |-> features_df[i].page_number]

\* C13: when some row has class 1, 2 or 3 with probability strictly above
\* 0.6, the outline holds exactly one heading for each such row and none for
\* any other row; the heading carries the row's text and page, and level H1,
\* H2, H3 for class 3, 2, 1
C13_ClassifierEmission ==
    (OutlineExtracted /\ PassedFilter # {}) =>
        /\ Len(outline) = Cardinality(PassedFilter)
        /\ \A i \in PassedFilter :
              Cardinality({ j \in 1..Len(outline) : outline[j] = HeadingOfRow(i) }) = 1
        /\ \A j \in 1..Len(outline) :
              \E i \in PassedFilter : outline[j] = HeadingOfRow(i)

\* C13 witness: an outline of an H1 and an H2 heading, built from a table
\* that also holds a row of class 2 at probability 0.6 exactly
C13_Witness ==
    /\ pc = "done"
    /\ \E j \in 1..Len(outline) : outline[j].level = "H1"
    /\ \E j \in 1..Len(outline) : outline[j].level = "H2"
    /\ \E i \in 1..Len(features_df) :
          /\ features_df[i].predicted_class = 2
          /\ features_df[i].max_probability = 6

\* C15: when the title comes from the classifier path (a page-1 row of class
\* 3 with probability > 0.6), the outline takes the classifier path too and
\* holds a heading of level H1 on page 1 whose text is the title
C15_TitleInOutline ==
    (OutlineExtracted /\ ConfidentH1OnPage1 # {}) =>
        /\ ~used_fallback
        /\ \E j \in 1..Len(outline) :
              outline[j] = [level |-> "H1", text |-> title, page |-> 1]

\* C15 witness: the title came from the classifier path and its heading is
\* not the first of the outline
C15_Witness ==
    /\ pc = "done"
    /\ ConfidentH1OnPage1 # {}
    /\ Len(outline) >= 2
    /\ outline[1].text # title

\* C14: the heuristic is a function of the table's features alone and leaves
\* the caller's table as it was: what it returned is what it returns for the
\* table before the classifier annotated it, and what a second run over the
\* table returns after the call; _extract_outline does not change features_df
C14_HeuristicPure ==
    /\ []((OutlineExtracted /\ used_fallback) =>
            /\ heuristic_df = heuristic_heading_detection(calculate_features(spans))
            /\ heuristic_df = heuristic_heading_detection(features_df))
    /\ [][pc = "outline" => features_df' = features_df]_vars

\* C14 witness: the heuristic ran over a table in which the classifier had
\* given class 3 to a row that the heuristic drops, and kept another row
C14_Witness ==
    /\ pc = "done"
    /\ used_fallback
    /\ Len(heuristic_df) > 0
    /\ \E i \in 1..Len(features_df) :
          /\ features_df[i].predicted_class = 3
          /\ \A k \in 1..Len(heuristic_df) : heuristic_df[k].idx # features_df[i].idx

\* a result of process_pdf: a title and a list of headings of level H1 to H3
WellFormed(r) ==
    /\ DOMAIN r = {"title", "outline"}
    /\ r.title # None
    /\ \A j \in 1..Len(r.outline) :
          /\ DOMAIN r.outline[j] = {"level", "text", "page"}
          /\ r.outline[j].level \in {"H1", "H2", "H3"}

\* the processing of a file fails: its spans cannot be extracted, the
\* classifier raises on its spans, or its output cannot be written
Fails(file) ==
    \/ file.fault \in {"extract", "write"}
    \/ file.fault = "predict" /\ Len(file.doc) > 0

\* the entry of process_batch for a file is as the file deserves
BatchEntryOk(file) ==
    /\ file.name \in DOMAIN results
    /\ IF Fails(file) THEN DOMAIN results[file.name] = {"error"}
                      ELSE WellFormed(results[file.name])
    /\ file.name \in output_folder <=> ~Fails(file)

\* the k-th record of the /upload request of thread t is as the k-th file
\* deserves
UploadEntryOk(t, k) ==
    LET file == req[t].files[k]
        e    == req[t].entries[k]
    IN  /\ e.filename = file.filename
        /\ e.success <=> (file.filename.ext = "pdf" /\ ~Fails(file))
        /\ IF e.success THEN WellFormed(e.result) ELSE "error" \in DOMAIN e

\* C11: process_batch never ends by an exception; the files the loop has gone
\* through have exactly one entry each, an error record for a file whose
\* extraction, classification or output writing raised and a well-formed
\* result for any other, and what it returns has one entry for every file of
\* the folder.  The loop of /upload, for files with these failures, appends
\* exactly one such record per file, in the order of the files
C11_FailureIsolation ==
    /\ batch_pc \in {"idle", "loop", "returned"}
    /\ batch_pc = "returned" => batch_done = Len(pdf_files)
    /\ batch_pc # "idle" =>
          /\ DOMAIN results = { pdf_files[i].name : i \in 1..batch_done }
          /\ \A i \in 1..batch_done : BatchEntryOk(pdf_files[i])
    /\ \A t \in Threads :
          (/\ req[t].route = "upload"
           /\ req[t].pc \in {"loop", "responded"}
           /\ \A k \in 1..Len(req[t].files) : req[t].files[k].fault # "remove") =>
              /\ Len(req[t].entries) = req[t].k
              /\ req[t].response = "rendered" => req[t].k = Len(req[t].files)
              /\ \A k \in 1..req[t].k : UploadEntryOk(t, k)

\* C11 witness: process_batch has returned for a folder whose first file
\* failed and whose second file was processed
C11_Witness ==
    /\ batch_pc = "returned"
    /\ Len(pdf_files) >= 2
    /\ Fails(pdf_files[1])
    /\ ~Fails(pdf_files[2])
    /\ Len(pdf_files[2].doc) > 0
    /\ "title" \in DOMAIN results[pdf_files[2].name]

\* C12: under every interleaving of the requests the model is loaded at most
\* once and trained at most once, and once inference_engine is not None it
\* is not assigned again while a request is processing a document
C12_LoadedOnce ==
    /\ [](load_count <= 1 /\ train_count <= 1)
    /\ [][(/\ inference_engine # NoEngine
           /\ \E t \in Threads : req[t].pc = "process")
          => inference_engine' = inference_engine]_vars

\* C16: when a request to /api/process or /upload has been answered, no file
\* it saved is left in the upload folder, whether process_pdf returned or
\* raised (files that os.remove itself fails on are left aside)
C16_UploadCleanup ==
    \A t \in Threads :
        req[t].pc = "responded" =>
            \A k \in 1..req[t].k :
                req[t].files[k].fault # "remove" =>
                    filepath(t, req[t].files[k]) \notin upload_folder

====
